---- MODULE Spec2Model ----
(***************************************************************************)
(* Model of the task-manager backend example (python-fastapi-api):         *)
(*   core/config.py    Settings, settings                                  *)
(*   core/database.py  engine, AsyncSessionLocal, get_db                   *)
(*   main.py           lifespan, health_check                              *)
(*                                                                         *)
(* Library behaviour the code relies on is modelled as documented by the   *)
(* libraries: pydantic-settings source priority, the SQLAlchemy pool and   *)
(* AsyncSession context manager, contextlib.asynccontextmanager.           *)
(* session.rollback() and session.close() are modelled as not raising;     *)
(* session.commit() and the schema creation may raise.                     *)
(***************************************************************************)
EXTENDS Integers, Sequences, FiniteSets, TLC

\* ------------------------------------------------------------------ bounds
NumTasks == 2
MaxSessions == 2
PoolCapacity == 2

Tasks == 1..NumTasks
Conns == 1..PoolCapacity

VARIABLES
    dotenvFile,     \* the .env file: field name -> raw string or Absent
    osEnviron,      \* the process environment: field name -> raw string or Absent
    settings,       \* the module-level settings object of core/config.py, or NotLoaded
    procPc,         \* position of the process: imports, lifespan startup, serving, shutdown
    procLog,        \* the startup and shutdown steps executed so far, in order
    dbReachable,    \* whether the database server answers
    idle,           \* connections checked in to the engine's pool
    disposeCalls,   \* number of engine.dispose() calls
    created,        \* number of AsyncSession objects constructed so far
    scope,          \* per task: its running get_db scope, or the last one it left
    pc,             \* per task: position inside get_db
    schemaConn,     \* connection held by the lifespan's engine.begin() block, 0 if none
    health          \* last response of GET /health with the reachability at that time

vars == <<dotenvFile, osEnviron, settings, procPc, procLog, dbReachable, idle,
          disposeCalls, created, scope, pc, schemaConn, health>>

\* ------------------------------------------------- core/config.py: Settings
Absent == "<absent>"
Invalid == "<invalid>"
NoResponse == "<no response>"

Fields == {"DEBUG", "PROJECT_NAME"}

\* class Settings: the hard-coded defaults
Default(f) == IF f = "DEBUG" THEN "False" ELSE "Task Manager API"

\* DEBUG: bool -- pydantic's lenient string-to-bool conversion
ParseBool(raw) ==
    IF raw \in {"true", "1"} THEN "True"
    ELSE IF raw \in {"false", "0"} THEN "False"
    ELSE Invalid

\* validation of one raw source string against the field's declared type
Validate(f, raw) == IF f = "DEBUG" THEN ParseBool(raw) ELSE raw

\* BaseSettings with env_file=".env": process environment variables take
\* priority over the dotenv file, which takes priority over the defaults
SourceValue(f) ==
    IF osEnviron[f] # Absent THEN osEnviron[f]
    ELSE IF dotenvFile[f] # Absent THEN dotenvFile[f]
    ELSE Absent

FieldValue(f) ==
    IF SourceValue(f) = Absent THEN Default(f) ELSE Validate(f, SourceValue(f))

NotLoaded == [f \in Fields |-> "<not loaded>"]

LoadedSettings == [f \in Fields |-> FieldValue(f)]

SettingsValid == \A f \in Fields : FieldValue(f) # Invalid

RawValues(f) ==
    IF f = "DEBUG" THEN {Absent, "true", "1", "false", "maybe"}
    ELSE {Absent, "App"}

\* the two sources never hold the same string for a field, so that the
\* loaded value tells which source it came from
DotenvValues(f) ==
    IF f = "DEBUG" THEN {Absent, "true", "0", "false", "maybe"}
    ELSE {Absent, "FileApp"}

\* the pool hands out its checked-in connections in a fixed order
Lowest(S) == CHOOSE c \in S : \A d \in S : c <= d

\* ------------------------------------------------------------ process steps
HasStep(step) == \E i \in 1..Len(procLog) : procLog[i] = step
StepCount(step) == Cardinality({i \in 1..Len(procLog) : procLog[i] = step})
StepIndex(step) == CHOOSE i \in 1..Len(procLog) : procLog[i] = step

\* settings = Settings()  (module import of core/config.py)
LoadSettings ==
    /\ procPc = "import_config"
    /\ procLog' = Append(procLog, "load_settings")
    /\ IF SettingsValid
       THEN /\ settings' = LoadedSettings
            /\ procPc' = "import_database"
       ELSE /\ settings' = settings
            /\ procPc' = "config_error"
    /\ UNCHANGED <<dotenvFile, osEnviron, dbReachable, idle, disposeCalls,
                   created, scope, pc, schemaConn, health>>

\* engine = create_async_engine(...); AsyncSessionLocal = async_sessionmaker(...)
\* The pool is created empty of checked-out connections; nothing connects yet.
CreateEngine ==
    /\ procPc = "import_database"
    /\ procLog' = Append(procLog, "create_engine")
    /\ idle' = Conns
    /\ procPc' = "assembled"
    /\ UNCHANGED <<dotenvFile, osEnviron, settings, dbReachable, disposeCalls,
                   created, scope, pc, schemaConn, health>>

\* ------------------------------------------------------- main.py: lifespan
\* the application routes requests only between the lifespan's yield and
\* the resumption of the lifespan generator
AcceptingRequests_BeforeSchema == procPc \in {"creating_schema", "serving"}

AcceptingRequests == procPc = "serving"

\* async with engine.begin() as conn:  -- connects, or raises when it cannot
LifespanEnter ==
    /\ procPc = "assembled"
    /\ \/ /\ dbReachable
          /\ idle # {}
          /\ idle' = idle \ {Lowest(idle)}
          /\ schemaConn' = Lowest(idle)
          /\ procLog' = Append(procLog, "create_all_begin")
          /\ procPc' = "creating_schema"
       \/ /\ ~dbReachable
          /\ procLog' = Append(procLog, "create_all_begin")
          /\ procPc' = "startup_failed"
          /\ UNCHANGED <<idle, schemaConn>>
    /\ UNCHANGED <<dotenvFile, osEnviron, settings, dbReachable, disposeCalls,
                   created, scope, pc, health>>

\* await conn.run_sync(Base.metadata.create_all) returns; the block commits,
\* gives its connection back, and the lifespan reaches its yield
SchemaCreated ==
    /\ procPc = "creating_schema"
    /\ procLog' = procLog \o <<"create_all_done", "yield">>
    /\ idle' = idle \cup {schemaConn}
    /\ schemaConn' = 0
    /\ procPc' = "serving"
    /\ UNCHANGED <<dotenvFile, osEnviron, settings, dbReachable, disposeCalls,
                   created, scope, pc, health>>

\* create_all raises: engine.begin() rolls back and gives its connection
\* back, the exception leaves lifespan, which has no handler around it
SchemaFails ==
    /\ procPc = "creating_schema"
    /\ idle' = idle \cup {schemaConn}
    /\ schemaConn' = 0
    /\ procPc' = "startup_failed"
    /\ UNCHANGED <<dotenvFile, osEnviron, settings, procLog, dbReachable,
                   disposeCalls, created, scope, pc, health>>

\* the generator is resumed normally after the yield: await engine.dispose().
\* dispose() closes the checked-in connections and leaves the engine with a
\* fresh pool of the same capacity.
LifespanShutdown ==
    /\ procPc = "serving"
    /\ procLog' = Append(procLog, "dispose")
    /\ disposeCalls' = disposeCalls + 1
    /\ procPc' = "stopped"
    /\ UNCHANGED <<dotenvFile, osEnviron, settings, dbReachable, idle,
                   created, scope, pc, schemaConn, health>>

\* the serving phase ends with a failure: asynccontextmanager throws it into
\* the generator at the yield; nothing catches it, the shutdown code is skipped
ServingAborted ==
    /\ procPc = "serving"
    /\ procPc' = "aborted"
    /\ UNCHANGED <<dotenvFile, osEnviron, settings, procLog, dbReachable, idle,
                   disposeCalls, created, scope, pc, schemaConn, health>>

Terminal == {"config_error", "startup_failed", "stopped", "aborted"}

\* ---------------------------------------------------- main.py: health_check
HealthBody == [status |-> "healthy", database |-> "connected"]

NoHealth == [body |-> [status |-> NoResponse, database |-> NoResponse],
             dbWasReachable |-> FALSE]

HealthCheck ==
    /\ AcceptingRequests
    /\ health' = [body |-> HealthBody, dbWasReachable |-> dbReachable]
    /\ UNCHANGED <<dotenvFile, osEnviron, settings, procPc, procLog, dbReachable,
                   idle, disposeCalls, created, scope, pc, schemaConn>>

\* ------------------------------------------------------------- environment
DbOutage ==
    /\ dbReachable
    /\ dbReachable' = FALSE
    /\ UNCHANGED <<dotenvFile, osEnviron, settings, procPc, procLog, idle,
                   disposeCalls, created, scope, pc, schemaConn, health>>

DbRecover ==
    /\ ~dbReachable
    /\ dbReachable' = TRUE
    /\ UNCHANGED <<dotenvFile, osEnviron, settings, procPc, procLog, idle,
                   disposeCalls, created, scope, pc, schemaConn, health>>

\* ------------------------------------------------ core/database.py: get_db
InScope == "<in scope>"
NoExc == "<none>"

\* the exception classes caught by `except Exception`; asyncio.CancelledError
\* derives from BaseException and is not among them
ExceptionClasses == {"WorkError", "CommitError"}

Catches_OnlyWorkError(exc) == exc = "WorkError"

Catches(exc) == exc \in ExceptionClasses

\* AsyncSessionLocal() constructs a new AsyncSession on every call
NewSessionId_Shared == IF created = 0 THEN 1 ELSE created

NewSessionId == created + 1

\* the pool checks out only connections that are checked in
Checkout == idle

\* the statement after `yield session` when the caller's work returns
OnNormalReturn_NoCommit == "finally"

OnNormalReturn == "commit"

\* the bare `raise` after the rollback re-raises the exception being handled
Reraise_Swallow(exc) == NoExc

Reraise(exc) == exc

IndexOf(log, ev) == CHOOSE i \in 1..Len(log) : log[i] = ev
Count(log, ev) == Cardinality({i \in 1..Len(log) : log[i] = ev})
Has(log, ev) == \E i \in 1..Len(log) : log[i] = ev

NoScope ==
    [id |-> 0, afterDispose |-> FALSE, conn |-> 0, open |-> FALSE,
     work |-> "none", commit |-> "none", exc |-> NoExc, log |-> <<>>,
     result |-> "none"]

NewSession(id) ==
    [id |-> id, afterDispose |-> disposeCalls > 0, conn |-> 0, open |-> TRUE,
     work |-> "running", commit |-> "none", exc |-> NoExc, log |-> <<>>,
     result |-> InScope]

\* async with AsyncSessionLocal() as session: ... yield session
EnterGetDb(t) ==
    /\ pc[t] = "idle"
    /\ created < MaxSessions
    /\ scope' = [scope EXCEPT ![t] = NewSession(NewSessionId)]
    /\ created' = created + 1
    /\ pc' = [pc EXCEPT ![t] = "yielded"]
    /\ UNCHANGED <<dotenvFile, osEnviron, settings, procPc, procLog, dbReachable,
                   idle, disposeCalls, schemaConn, health>>

\* a route with Depends(get_db) handles a request
RouteRequest(t) == AcceptingRequests /\ EnterGetDb(t)

\* get_db is iterated after the lifespan has shut down (get_db itself has no
\* condition on the state of the engine)
LateGetDb(t) == procPc = "stopped" /\ EnterGetDb(t)

\* the caller's work runs its first statement on the session, which checks
\* a connection out of the engine's pool
Use(t) ==
    /\ pc[t] = "yielded"
    /\ scope[t].conn = 0
    /\ dbReachable
    /\ Checkout # {}
    /\ LET c == Lowest(Checkout) IN
          /\ idle' = idle \ {c}
          /\ scope' = [scope EXCEPT ![t].conn = c, ![t].log = Append(@, "lease")]
    /\ UNCHANGED <<dotenvFile, osEnviron, settings, procPc, procLog, dbReachable,
                   disposeCalls, created, pc, schemaConn, health>>

\* the caller's work completes: the generator is resumed after the yield
WorkReturns(t) ==
    /\ pc[t] = "yielded"
    /\ scope' = [scope EXCEPT ![t].work = "returned"]
    /\ pc' = [pc EXCEPT ![t] = OnNormalReturn]
    /\ UNCHANGED <<dotenvFile, osEnviron, settings, procPc, procLog, dbReachable,
                   idle, disposeCalls, created, schemaConn, health>>

\* the caller's work raises: the exception is thrown into the generator at
\* the yield; the except clause runs when it catches the class, the finally
\* clause otherwise
WorkRaises(t) ==
    /\ pc[t] = "yielded"
    /\ scope' = [scope EXCEPT ![t].work = "raised", ![t].exc = "WorkError"]
    /\ pc' = [pc EXCEPT ![t] = IF Catches("WorkError") THEN "rollback" ELSE "finally"]
    /\ UNCHANGED <<dotenvFile, osEnviron, settings, procPc, procLog, dbReachable,
                   idle, disposeCalls, created, schemaConn, health>>

\* the request task is cancelled or times out while the session is yielded
WorkCancelled(t) ==
    /\ pc[t] = "yielded"
    /\ scope' = [scope EXCEPT ![t].work = "cancelled", ![t].exc = "CancelledError"]
    /\ pc' = [pc EXCEPT ![t] = IF Catches("CancelledError") THEN "rollback" ELSE "finally"]
    /\ UNCHANGED <<dotenvFile, osEnviron, settings, procPc, procLog, dbReachable,
                   idle, disposeCalls, created, schemaConn, health>>

\* await session.commit() returns
Commit(t) ==
    /\ pc[t] = "commit"
    /\ scope' = [scope EXCEPT ![t].commit = "ok", ![t].log = Append(@, "commit")]
    /\ pc' = [pc EXCEPT ![t] = "finally"]
    /\ UNCHANGED <<dotenvFile, osEnviron, settings, procPc, procLog, dbReachable,
                   idle, disposeCalls, created, schemaConn, health>>

\* await session.commit() raises
CommitFails(t) ==
    /\ pc[t] = "commit"
    /\ scope' = [scope EXCEPT ![t].commit = "failed", ![t].exc = "CommitError",
                              ![t].log = Append(@, "commit")]
    /\ pc' = [pc EXCEPT ![t] = IF Catches("CommitError") THEN "rollback" ELSE "finally"]
    /\ UNCHANGED <<dotenvFile, osEnviron, settings, procPc, procLog, dbReachable,
                   idle, disposeCalls, created, schemaConn, health>>

\* except Exception: await session.rollback(); raise
Rollback(t) ==
    /\ pc[t] = "rollback"
    /\ scope' = [scope EXCEPT ![t].log = Append(@, "rollback"),
                              ![t].exc = Reraise(@)]
    /\ pc' = [pc EXCEPT ![t] = "finally"]
    /\ UNCHANGED <<dotenvFile, osEnviron, settings, procPc, procLog, dbReachable,
                   idle, disposeCalls, created, schemaConn, health>>

\* session.close(): an open session gives its connection back to the pool
\* and ends ("release"); on a closed session the call changes nothing
Closed(s) ==
    [s EXCEPT !.open = FALSE, !.conn = 0,
              !.log = IF s.open THEN @ \o <<"close", "release">>
                                ELSE Append(@, "close")]

Returned(s) == IF s.open /\ s.conn # 0 THEN {s.conn} ELSE {}

\* finally: await session.close()
FinallyClose(t) ==
    /\ pc[t] = "finally"
    /\ idle' = idle \cup Returned(scope[t])
    /\ scope' = [scope EXCEPT ![t] = Closed(@)]
    /\ pc' = [pc EXCEPT ![t] = "aexit"]
    /\ UNCHANGED <<dotenvFile, osEnviron, settings, procPc, procLog, dbReachable,
                   disposeCalls, created, schemaConn, health>>

\* leaving `async with`: AsyncSession.__aexit__ closes the session again, then
\* the pending exception, if any, reaches the caller of get_db
ContextExit(t) ==
    /\ pc[t] = "aexit"
    /\ idle' = idle \cup Returned(scope[t])
    /\ scope' = [scope EXCEPT
                    ![t] = [Closed(scope[t]) EXCEPT
                               !.result = IF scope[t].exc = NoExc THEN "returned"
                                          ELSE scope[t].exc]]
    /\ pc' = [pc EXCEPT ![t] = "idle"]
    /\ UNCHANGED <<dotenvFile, osEnviron, settings, procPc, procLog, dbReachable,
                   disposeCalls, created, schemaConn, health>>

\* ----------------------------------------------------------- specification
NoEnv == [f \in Fields |-> Absent]

InitRest ==
    /\ settings = NotLoaded
    /\ procPc = "import_config"
    /\ procLog = <<>>
    /\ dbReachable = TRUE
    /\ idle = {}
    /\ disposeCalls = 0
    /\ created = 0
    /\ scope = [t \in Tasks |-> NoScope]
    /\ pc = [t \in Tasks |-> "idle"]
    /\ schemaConn = 0
    /\ health = NoHealth

\* the application run with a reachable database: a process environment that
\* leaves DEBUG unset or sets it to an invalid string, and a .env file
Init ==
    /\ osEnviron \in {NoEnv, [NoEnv EXCEPT !["DEBUG"] = "maybe"]}
    /\ dotenvFile = [NoEnv EXCEPT !["PROJECT_NAME"] = "FileApp"]
    /\ InitRest

Next ==
    \/ LoadSettings
    \/ CreateEngine
    \/ LifespanEnter
    \/ SchemaCreated
    \/ SchemaFails
    \/ LifespanShutdown
    \/ ServingAborted
    \/ \E t \in Tasks : RouteRequest(t)
    \/ \E t \in Tasks : LateGetDb(t)
    \/ \E t \in Tasks : Use(t)
    \/ \E t \in Tasks : WorkReturns(t)
    \/ \E t \in Tasks : WorkRaises(t)
    \/ \E t \in Tasks : WorkCancelled(t)
    \/ \E t \in Tasks : Commit(t)
    \/ \E t \in Tasks : CommitFails(t)
    \/ \E t \in Tasks : Rollback(t)
    \/ \E t \in Tasks : FinallyClose(t)
    \/ \E t \in Tasks : ContextExit(t)

Spec == Init /\ [][Next]_vars

\* Settings() alone, over every combination of the two sources
InitSettings ==
    /\ osEnviron \in [Fields -> UNION {RawValues(f) : f \in Fields}]
    /\ \A f \in Fields : osEnviron[f] \in RawValues(f)
    /\ dotenvFile \in [Fields -> UNION {DotenvValues(f) : f \in Fields}]
    /\ \A f \in Fields : dotenvFile[f] \in DotenvValues(f)
    /\ InitRest

NextSettings == LoadSettings \/ CreateEngine

SpecSettings == InitSettings /\ [][NextSettings]_vars

\* the process and its health endpoint under database outages, without
\* database sessions
NextHealth ==
    \/ LoadSettings
    \/ CreateEngine
    \/ LifespanEnter
    \/ SchemaCreated
    \/ SchemaFails
    \/ LifespanShutdown
    \/ ServingAborted
    \/ DbOutage
    \/ DbRecover
    \/ HealthCheck

SpecHealth == InitSettings /\ [][NextHealth]_vars

\* ------------------------------------------------------------------ claims
Exited(t) == pc[t] = "idle" /\ scope[t].id # 0
Running(t) == pc[t] # "idle"

\* C1: in a get_db scope whose caller's work raised a failure, commit is
\* never called, and once the scope is left rollback has been called once,
\* the failure that reached the caller is the work's own failure, and the
\* session has been released exactly once.
C1_FailureRollsBack ==
    \A t \in Tasks :
        scope[t].work = "raised" =>
            /\ ~Has(scope[t].log, "commit")
            /\ Exited(t) =>
                  /\ Count(scope[t].log, "rollback") = 1
                  /\ scope[t].result = "WorkError"
                  /\ Count(scope[t].log, "release") = 1
                  /\ IndexOf(scope[t].log, "rollback") < IndexOf(scope[t].log, "release")

C1_Witness ==
    \E t \in Tasks :
        /\ Exited(t)
        /\ scope[t].work = "raised"
        /\ Has(scope[t].log, "lease")
        /\ scope[t].result = "WorkError"

\* C2 as stated: in every get_db scope whose caller's work completed
\* without failure, commit happened exactly once, rollback was not called,
\* and the session was released exactly once, after the commit.
C2_AsStated ==
    \A t \in Tasks :
        (Exited(t) /\ scope[t].work = "returned") =>
            /\ Count(scope[t].log, "commit") = 1
            /\ ~Has(scope[t].log, "rollback")
            /\ Count(scope[t].log, "release") = 1
            /\ IndexOf(scope[t].log, "commit") < IndexOf(scope[t].log, "release")

\* C2 amended: the same, for the scopes in which session.commit() did not
\* raise.
C2_CommitThenRelease ==
    \A t \in Tasks :
        (Exited(t) /\ scope[t].work = "returned" /\ scope[t].commit # "failed") =>
            /\ Count(scope[t].log, "commit") = 1
            /\ scope[t].commit = "ok"
            /\ ~Has(scope[t].log, "rollback")
            /\ Count(scope[t].log, "release") = 1
            /\ IndexOf(scope[t].log, "commit") < IndexOf(scope[t].log, "release")
            /\ scope[t].result = "returned"

C2_Witness ==
    \E t \in Tasks :
        /\ Exited(t)
        /\ scope[t].work = "returned"
        /\ scope[t].commit = "ok"
        /\ Has(scope[t].log, "lease")

\* C3: a scope left after a cancellation has performed rollback and then
\* release; and on every exit path release has happened exactly once, after
\* a commit or a rollback was attempted.
C3_CancelRollsBackThenReleases ==
    \A t \in Tasks :
        Exited(t) =>
            /\ Count(scope[t].log, "release") = 1
            /\ \E i \in 1..Len(scope[t].log) :
                  /\ scope[t].log[i] \in {"commit", "rollback"}
                  /\ i < IndexOf(scope[t].log, "release")
            /\ scope[t].work = "cancelled" =>
                  /\ Has(scope[t].log, "rollback")
                  /\ IndexOf(scope[t].log, "rollback") < IndexOf(scope[t].log, "release")

\* C4: a session acquisition made after engine.dispose() fails with a
\* pool-closed error and leases no connection.
C4_AcquireAfterDisposeFails ==
    \A t \in Tasks :
        scope[t].afterDispose =>
            /\ ~Running(t)
            /\ scope[t].result = "PoolClosedError"
            /\ ~Has(scope[t].log, "lease")

\* C5: in every finished run of the process in which the engine was
\* created, engine.dispose() has run exactly once.
C5_DisposeAlwaysRuns ==
    (procPc \in Terminal /\ HasStep("create_engine")) => StepCount("dispose") = 1

\* C6: the sessions of concurrently running get_db scopes are pairwise
\* distinct and hold pairwise distinct connections, none of which is
\* checked in to the pool or held by the lifespan; a task outside a scope
\* holds no connection and no open session.
C6_SessionsExclusive ==
    /\ \A t, u \in Tasks :
          (t # u /\ Running(t) /\ Running(u)) =>
              /\ scope[t].id # scope[u].id
              /\ scope[t].conn # 0 => scope[t].conn # scope[u].conn
    /\ \A t \in Tasks :
          /\ Running(t) => scope[t].id \in 1..created
          /\ scope[t].conn # 0 =>
                /\ scope[t].conn \notin idle
                /\ scope[t].conn # schemaConn
                /\ Running(t)
                /\ scope[t].open
          /\ ~Running(t) => ~scope[t].open

C6_Witness ==
    \E t, u \in Tasks :
        /\ t # u
        /\ pc[t] = "yielded" /\ pc[u] = "yielded"
        /\ scope[t].conn # 0 /\ scope[u].conn # 0

\* C7: every loaded field takes the .env file's value when the file sets
\* it, else the process environment's value, else the default.
C7_DotenvFileFirst ==
    procPc = "import_database" =>
        \A f \in Fields :
            settings[f] =
                IF dotenvFile[f] # Absent THEN Validate(f, dotenvFile[f])
                ELSE IF osEnviron[f] # Absent THEN Validate(f, osEnviron[f])
                ELSE Default(f)

\* C8: a health response reports the database as connected exactly when
\* the database was reachable at the time of the request.
C8_HealthReportsReachability ==
    health.body.status # NoResponse =>
        (health.body.database = "connected" <=> health.dbWasReachable)

\* C9: each startup step runs at most once, settings are loaded before the
\* engine is created, the engine is created before schema creation starts,
\* the lifespan yields only after schema creation has completed, and no
\* request gets a session before that.
Before(a, b) == HasStep(a) /\ StepIndex(a) < StepIndex(b)

C9_StartupOrder ==
    /\ \A step \in {"load_settings", "create_engine", "create_all_begin",
                    "create_all_done", "yield"} : StepCount(step) <= 1
    /\ HasStep("create_engine") =>
          /\ Before("load_settings", "create_engine")
          /\ settings = LoadedSettings /\ SettingsValid
    /\ HasStep("create_all_begin") => Before("create_engine", "create_all_begin")
    /\ HasStep("create_all_done") => Before("create_all_begin", "create_all_done")
    /\ HasStep("yield") => Before("create_all_done", "yield")
    /\ (\E t \in Tasks : scope[t].id # 0) => HasStep("yield")
    /\ procPc = "serving" => HasStep("yield")

C9_Witness ==
    /\ procPc = "serving"
    /\ procLog = <<"load_settings", "create_engine", "create_all_begin",
                   "create_all_done", "yield">>
    /\ \E t \in Tasks : pc[t] = "yielded"

\* C10: in a scope whose commit raised, rollback is called after the commit
\* and, once the scope is left, the commit's exception has reached the
\* caller and the session has been released; and no scope calls rollback
\* after a commit that succeeded.
C10_CommitFailureRollsBack ==
    \A t \in Tasks :
        /\ (Exited(t) /\ scope[t].commit = "failed") =>
              /\ scope[t].work = "returned"
              /\ Count(scope[t].log, "rollback") = 1
              /\ IndexOf(scope[t].log, "commit") < IndexOf(scope[t].log, "rollback")
              /\ scope[t].result = "CommitError"
              /\ Count(scope[t].log, "release") = 1
              /\ IndexOf(scope[t].log, "rollback") < IndexOf(scope[t].log, "release")
        /\ scope[t].commit = "ok" => ~Has(scope[t].log, "rollback")

C10_Witness ==
    \E t \in Tasks :
        /\ Exited(t)
        /\ scope[t].commit = "failed"
        /\ scope[t].result = "CommitError"
        /\ Has(scope[t].log, "lease")
====
